---- MODULE Spec2Model ----
(***************************************************************************)
(* Byte-level model of ObjectAllocator (ObjectAllocator.cpp): a fixed-size *)
(* block pool that carves pages obtained from the system allocator into    *)
(* blocks, threads a free list through the first machine word of every     *)
(* free block and, in debug mode, stamps patterns and validates releases.  *)
(*                                                                         *)
(* Memory is a function from the addresses of the live pages to bytes.     *)
(* Pointers are stored little-endian in WordSize bytes.  NULL is 0.        *)
(* An access outside every live page is undefined behaviour: the call ends *)
(* in the absorbing outcome "UB"; a list walk that never ends is "HANG".   *)
(***************************************************************************)
EXTENDS Integers, Sequences, FiniteSets, TLC

(***************************************************************************)
(* Bounds of the model.                                                    *)
(***************************************************************************)
MaxObjectsPerPage == 2
MaxMaxPages       == 2
MaxPadBytes       == 1
MaxBlocks         == 2
MaxAllocations    == 3
MaxClientWrites   == 1

(***************************************************************************)
(* Platform and program constants.                                         *)
(***************************************************************************)
WordSize == 4                 \* sizeof(void*)

UNALLOCATED_PATTERN == 170    \* 0xAA
ALLOCATED_PATTERN   == 187    \* 0xBB
FREED_PATTERN       == 204    \* 0xCC
PAD_PATTERN         == 221    \* 0xDD
ALIGN_PATTERN       == 238    \* 0xEE

NULL == 0

\* Configurations the constructor is given.
ObjectSizes   == {WordSize + 1}
HeaderChoices == {0, 1}
AlignChoices  == {0, 1}

\* Bytes an uninitialised buffer (new char[n]) may hold, bytes a read
\* outside every page may return, and bytes the client writes.
GarbageBytes == {0, 1}
ClientBytes  == {0}

\* `unsigned` is 32 bits wide.  A 32-bit value u is held as the integer of
\* the same two's-complement bit pattern: u itself below 2^31, u - 2^32
\* from there on, so that -1 stands for 0xFFFFFFFF.  Addition and
\* subtraction mod 2^32 are then the integer ones (the model stays far from
\* +-2^31); comparison and remainder read the pattern as unsigned.
UAdd(a, b) == a + b
USub(a, b) == a - b
ULess(a, b) == IF (a < 0) = (b < 0) THEN a < b ELSE b < 0
\* 2^32 mod n, for n > 0.
TwoTo32Mod(n) == ((65536 % n) * (65536 % n)) % n
\* u % n for the unsigned value held in a, n > 0.
URem(a, n) == IF a >= 0 THEN a % n ELSE (TwoTo32Mod(n) + (a % n)) % n

Min(a, b) == IF a < b THEN a ELSE b
SetMax(S) == CHOOSE x \in S : \A y \in S : y <= x

VARIABLES
  Config_,      \* OAConfig: the configuration kept by the allocator
  OAStats_,     \* OAStats: the statistics
  page_list_,   \* head of the page chain (address of the newest page)
  free_list_,   \* head of the free list
  mem,          \* bytes of the live pages: [address -> 0..255]
  lastOp,       \* the operation that ran last
  lastArg,      \* its argument (release: the pointer)
  lastRet,      \* its return value (allocate: pointer; dump/scan: count)
  lastErr,      \* "none", the OAException code it threw, "UB" or "HANG"
  visited,      \* addresses the dump/scan visitor was called with, in order
  lent,         \* history: pointers returned by allocate, not yet released
  released,     \* history: successful releases not re-allocated since, newest first
  smashed,      \* history: blocks with a guard byte overwritten by the client
  clientWrites, \* history: number of client writes so far
  modeSet,      \* history: SetDebugState has been called
  failed,       \* history: some call reported an error, or a release was
                \* given an address that was not on loan
  strayed,      \* history: a release was given an address that allocate
                \* never returned
  tally,        \* history: successful allocations and releases so far, and
                \* the largest number of blocks that were on loan at once
  deleted       \* history: pages handed back to the system, in order

vars == <<Config_, OAStats_, page_list_, free_list_, mem, lastOp, lastArg,
          lastRet, lastErr, visited, lent, released, smashed, clientWrites,
          modeSet, failed, strayed, tally, deleted>>

(***************************************************************************)
(* Layout arithmetic.  cfg is an OAConfig, st an OAStats.                  *)
(***************************************************************************)
chunk_size_(cfg) == (cfg.PadBytes_ * 2) + cfg.HeaderBlocks_ + cfg.Alignment_
block_size_(cfg, st) == st.ObjectSize_ + chunk_size_(cfg)

\* Offset of the first payload from the page address, as AllocatePage,
\* DumpMemoryInUse and ValidateObject compute it.
FirstBlockOffset(cfg) == WordSize + chunk_size_(cfg) - cfg.PadBytes_

(***************************************************************************)
(* The system allocator: pages live in disjoint address slots.             *)
(***************************************************************************)
MaxObjectSize == SetMax(ObjectSizes)
MaxPageSize == WordSize + MaxObjectsPerPage *
                 (MaxObjectSize + 2 * MaxPadBytes + SetMax(HeaderChoices) + SetMax(AlignChoices))
SlotSize  == MaxPageSize + 2
Slots     == 1 .. (2 * MaxMaxPages - 1)
SlotBase(s) == s * SlotSize
\* The constructor's page lies in the middle, so that a later page may lie
\* below or above it.
FirstSlot == MaxMaxPages
PageRange(base, size) == base .. (base + size - 1)

\* Pages currently owned: the slot bases whose first byte is mapped.
LivePages == {SlotBase(s) : s \in {t \in Slots : SlotBase(t) \in DOMAIN mem}}

(***************************************************************************)
(* Raw memory access.                                                      *)
(***************************************************************************)
\* A write list is a sequence of <<address, byte>>, applied in order.
Fill(pos, n, v) == [k \in 1 .. n |-> <<pos + k - 1, v>>]

\* A loop `while(n--) *p++ = v` with an unsigned n: when n wrapped around,
\* the run leaves the page after at most MaxPageSize + 1 bytes.
FillU(pos, n, v) ==
  Fill(pos, IF n < 0 THEN MaxPageSize + 1 ELSE Min(n, MaxPageSize + 1), v)

PtrBytes(a) == [k \in 1 .. WordSize |-> (a \div (256 ^ (k - 1))) % 256]
PutPtr(pos, a) == [k \in 1 .. WordSize |-> <<pos + k - 1, PtrBytes(a)[k]>>]

Wild(m, ws) == \E i \in 1 .. Len(ws) : ws[i][1] \notin DOMAIN m

ApplyWrites(m, ws) ==
  [a \in DOMAIN m |->
     LET idx == {i \in 1 .. Len(ws) : ws[i][1] = a}
     IN  IF idx = {} THEN m[a] ELSE ws[SetMax(idx)][2]]

CanReadPtr(m, a) == \A k \in 0 .. WordSize - 1 : (a + k) \in DOMAIN m

RECURSIVE ReadPtrFrom(_, _, _)
ReadPtrFrom(m, a, k) ==
  IF k = WordSize - 1
  THEN (IF m[a + k] >= 128 THEN m[a + k] - 256 ELSE m[a + k])
  ELSE m[a + k] + 256 * ReadPtrFrom(m, a, k + 1)
\* The pointer stored at a; like an unsigned, a pointer with the top bit
\* set is held as a negative integer (an address in no page).
ReadPtr(m, a) == ReadPtrFrom(m, a, 0)

\* A byte read: outside every page it yields the byte `wild`.
ReadByte(m, a, wild) == IF a \in DOMAIN m THEN m[a] ELSE wild

(***************************************************************************)
(* SetSignatures (lines 700-861): the write list that stamps a new page.   *)
(***************************************************************************)
\* The per-block loop of lines 761-860; pos is set_signatures.
RECURSIVE SignatureLoop(_, _, _, _)
SignatureLoop(cfg, st, i, pos) ==
  IF ~ULess(i, cfg.ObjectsPerPage_) THEN <<>>
  ELSE IF cfg.DebugOn_ THEN
    LET q    == pos + WordSize
        n    == USub(st.ObjectSize_, WordSize)
        body == FillU(q, n, UNALLOCATED_PATTERN) \o Fill(q + n, cfg.PadBytes_, PAD_PATTERN)
        q2   == q + n + cfg.PadBytes_
        q3   == q2 + cfg.InterAlignSize_
        q4   == q3 + cfg.HeaderBlocks_
    IN  IF i = USub(cfg.ObjectsPerPage_, 1)
        THEN body \o SignatureLoop(cfg, st, i + 1, q2)
        ELSE body \o Fill(q2, cfg.InterAlignSize_, ALIGN_PATTERN)
                  \o Fill(q3, cfg.HeaderBlocks_, 0)
                  \o Fill(q4, cfg.PadBytes_, PAD_PATTERN)
                  \o SignatureLoop(cfg, st, i + 1, q4 + cfg.PadBytes_)
  ELSE IF i = USub(cfg.ObjectsPerPage_, 1) THEN <<>>
  ELSE
    LET q == pos + st.ObjectSize_ + cfg.InterAlignSize_ + cfg.PadBytes_
    IN  Fill(q, cfg.HeaderBlocks_, 0)
          \o SignatureLoop(cfg, st, i + 1, q + cfg.HeaderBlocks_)

SetSignatures(cfg, st, page) ==
  LET p0 == page + WordSize
      \* lines 707-743: left alignment filler and the first header
      al == IF cfg.DebugOn_ /\ cfg.LeftAlignSize_ # 0
            THEN Fill(p0, cfg.Alignment_, ALIGN_PATTERN) ELSE <<>>
      p1 == IF cfg.DebugOn_
            THEN (IF cfg.LeftAlignSize_ # 0 THEN p0 + cfg.Alignment_ ELSE p0)
            ELSE p0 + cfg.LeftAlignSize_
      hd == Fill(p1, cfg.HeaderBlocks_, 0)
      p2 == p1 + cfg.HeaderBlocks_
      \* lines 744-756: the first left guard, in debug mode only
      pd == IF cfg.DebugOn_ THEN Fill(p2, cfg.PadBytes_, PAD_PATTERN) ELSE <<>>
      p3 == IF cfg.DebugOn_ THEN p2 + cfg.PadBytes_ ELSE p2
  IN  al \o hd \o pd \o SignatureLoop(cfg, st, 0, p3)

(***************************************************************************)
(* AllocatePage (lines 486-556).                                           *)
(***************************************************************************)
\* The population loop of lines 534-551: temp is temp_free_list, fl is
\* free_list_, free is FreeObjects_, ws the links written so far.
\* Variant: only the linked iterations count a free block.
RECURSIVE PopulateLoop_CountLinked(_, _, _, _, _, _, _, _)
PopulateLoop_CountLinked(cfg, st, i, commited_bytes, temp, fl, free, ws) ==
  IF ULess(i, cfg.ObjectsPerPage_) \/ ~ULess(commited_bytes, st.PageSize_)
  THEN LET link  == ULess(i, USub(cfg.ObjectsPerPage_, 1))
           temp2 == IF link THEN temp + st.ObjectSize_ + chunk_size_(cfg) ELSE temp
       IN  PopulateLoop_CountLinked(cfg, st, i + 1,
                        UAdd(commited_bytes, st.ObjectSize_), temp2,
                        IF link THEN temp2 ELSE fl,
                        IF link THEN UAdd(free, 1) ELSE free,
                        IF link THEN ws \o PutPtr(temp2, fl) ELSE ws)
  ELSE [ws |-> ws, free_list |-> fl, free |-> free]

RECURSIVE PopulateLoop(_, _, _, _, _, _, _, _)
PopulateLoop(cfg, st, i, commited_bytes, temp, fl, free, ws) ==
  IF ULess(i, cfg.ObjectsPerPage_) \/ ~ULess(commited_bytes, st.PageSize_)
  THEN LET link  == ULess(i, USub(cfg.ObjectsPerPage_, 1))
           temp2 == IF link THEN temp + st.ObjectSize_ + chunk_size_(cfg) ELSE temp
       IN  PopulateLoop(cfg, st, i + 1, UAdd(commited_bytes, st.ObjectSize_), temp2,
                        IF link THEN temp2 ELSE fl,
                        UAdd(free, 1),
                        IF link THEN ws \o PutPtr(temp2, fl) ELSE ws)
  ELSE [ws |-> ws, free_list |-> fl, free |-> free]

\* PageSize_ of line 489.
PageSizeOf(cfg, st) == cfg.ObjectsPerPage_ * st.ObjectSize_ + WordSize
                       + cfg.ObjectsPerPage_ * chunk_size_(cfg)

\* new char[PageSize_] returned the buffer at `page`, filled with `garbage`.
AllocatePage(cfg, st, pl, m, page, garbage) ==
  LET st1   == [st EXCEPT !.PageSize_ = PageSizeOf(cfg, st),
                          !.PagesInUse_ = UAdd(@, 1)]
      fresh == PageRange(page, st1.PageSize_)
      m1    == [a \in (DOMAIN m) \cup fresh |-> IF a \in fresh THEN garbage ELSE m[a]]
      next  == IF st1.PagesInUse_ = 1 THEN NULL ELSE pl
      first == page + FirstBlockOffset(cfg)
      pop   == PopulateLoop(cfg, st1, 0, 0, first, first, st1.FreeObjects_, <<>>)
      ws    == SetSignatures(cfg, st1, page) \o PutPtr(page, next)
                 \o PutPtr(first, NULL) \o pop.ws
  IN  [mem       |-> ApplyWrites(m1, ws),
       wild      |-> Wild(m1, ws),
       page_list |-> page,
       free_list |-> pop.free_list,
       stats     |-> [st1 EXCEPT !.FreeObjects_ = pop.free]]

(***************************************************************************)
(* Constructor (lines 50-77).                                              *)
(***************************************************************************)
\* The statistics before the constructor body runs.
ZeroStats(ObjectSize) ==
  [ObjectSize_ |-> ObjectSize, PageSize_ |-> 0, FreeObjects_ |-> 0,
   ObjectsInUse_ |-> 0, PagesInUse_ |-> 0, MostObjects_ |-> 0,
   Allocations_ |-> 0, Deallocations_ |-> 0]

\* Config_ after lines 54-60.  LeftAlignSize_ and InterAlignSize_ are not
\* assigned until lines 74-75, after the first page was built: until then
\* they hold `unset`, the value the default-constructed Config_ left there.
CopiedConfig(config, unset) ==
  [config EXCEPT !.LeftAlignSize_ = unset, !.InterAlignSize_ = unset]

\* Lines 74-75.
FinishConfig(cfg) ==
  [cfg EXCEPT !.LeftAlignSize_ = cfg.Alignment_, !.InterAlignSize_ = cfg.Alignment_]

\* The values LeftAlignSize_/InterAlignSize_ may hold before line 74.
UnsetAlign(config) == {0, config.Alignment_}

AllConfigs(passThrough, maxPages) ==
  [UseCPPMemManager_ : passThrough,
   ObjectsPerPage_   : 1 .. MaxObjectsPerPage,
   MaxPages_         : maxPages,
   DebugOn_          : BOOLEAN,
   PadBytes_         : 0 .. MaxPadBytes,
   HeaderBlocks_     : HeaderChoices,
   Alignment_        : AlignChoices,
   LeftAlignSize_    : {0},
   InterAlignSize_   : {0}]

\* The configurations whose pool holds at most MaxBlocks blocks.
ConfigsOf(passThrough, maxPages) ==
  {c \in AllConfigs(passThrough, maxPages) :
     c.ObjectsPerPage_ * c.MaxPages_ <= MaxBlocks}

\* Variant: the constructor builds a page in every mode.
BuildsFirstPage_Always(config) == TRUE
\* Lines 71-72: does the constructor build the first page?
BuildsFirstPage(config) == ~config.UseCPPMemManager_

Constructed(config, ObjectSize, unset, page, garbage) ==
  LET cfg == CopiedConfig(config, unset)
      st  == ZeroStats(ObjectSize)
      r   == AllocatePage(cfg, st, NULL, <<>>, page, garbage)
  IN  IF ~BuildsFirstPage(config)
      THEN /\ Config_ = FinishConfig(cfg)
           /\ OAStats_ = st
           /\ page_list_ = NULL
           /\ free_list_ = NULL
           /\ mem = <<>>
           /\ lastErr = "none"
      ELSE /\ Config_ = FinishConfig(cfg)
           /\ OAStats_ = r.stats
           /\ page_list_ = r.page_list
           /\ free_list_ = r.free_list
           /\ mem = r.mem
           /\ lastErr = IF r.wild THEN "UB" ELSE "none"

InitHistory ==
  /\ lastOp = "ObjectAllocator"
  /\ lastArg = NULL
  /\ lastRet = NULL
  /\ visited = <<>>
  /\ lent = {}
  /\ released = <<>>
  /\ smashed = {}
  /\ clientWrites = 0
  /\ modeSet = FALSE
  /\ failed = FALSE
  /\ strayed = FALSE
  /\ tally = [allocs |-> 0, frees |-> 0, peak |-> 0]
  /\ deleted = <<>>

\* Pool mode with a page limit.
Init ==
  /\ \E config \in ConfigsOf({FALSE}, 1 .. MaxMaxPages), ObjectSize \in ObjectSizes :
       \E unset \in UnsetAlign(config), garbage \in GarbageBytes :
          Constructed(config, ObjectSize, unset, SlotBase(FirstSlot), garbage)
  /\ InitHistory

\* The allocator can be called: no call ended in undefined behaviour or
\* never returned, and the destructor has not run.
Running == lastErr \notin {"UB", "HANG"} /\ lastOp # "DeAllocatePages"

(***************************************************************************)
(* Allocate (lines 104-166).                                               *)
(***************************************************************************)
\* Variant: the limit is only reached once it has been exceeded.
PageLimitReached_Exceeded == OAStats_.PagesInUse_ > Config_.MaxPages_
\* Variant: a limit of 0 is a limit.
PageLimitReached_AtLeast == OAStats_.PagesInUse_ >= Config_.MaxPages_
\* Line 126.
PageLimitReached == OAStats_.PagesInUse_ = Config_.MaxPages_

\* Variant: the high-water mark is left alone.
AllocateStats_NoMost(st) ==
  [st EXCEPT !.FreeObjects_ = USub(@, 1),
             !.ObjectsInUse_ = UAdd(@, 1),
             !.Allocations_ = UAdd(@, 1)]
\* Variant: the high-water mark follows the number in use.
AllocateStats_MostFollows(st) ==
  LET st1 == [st EXCEPT !.FreeObjects_ = USub(@, 1),
                        !.ObjectsInUse_ = UAdd(@, 1),
                        !.Allocations_ = UAdd(@, 1)]
  IN  [st1 EXCEPT !.MostObjects_ = st1.ObjectsInUse_]
\* Lines 157-163 (and 112-117): the statistics after a successful call.
AllocateStats(st) ==
  LET st1 == [st EXCEPT !.FreeObjects_ = USub(@, 1),
                        !.ObjectsInUse_ = UAdd(@, 1),
                        !.Allocations_ = UAdd(@, 1)]
  IN  IF ULess(st1.MostObjects_, st1.ObjectsInUse_)
      THEN [st1 EXCEPT !.MostObjects_ = UAdd(@, 1)] ELSE st1

\* Address of the header byte Allocate and Free write (lines 152-154, 218-220).
HeaderFlagAddr(cfg, block) == block - (cfg.PadBytes_ + 1)

\* Lines 132-165 on the state (st, fl, m): pop the head of the free list.
PopFreeList(st, fl, m) ==
  LET temp == fl
      ws   == (IF Config_.DebugOn_
               THEN FillU(temp, st.ObjectSize_, ALLOCATED_PATTERN) ELSE <<>>)
              \o (IF Config_.HeaderBlocks_ # 0
                  THEN <<<<HeaderFlagAddr(Config_, temp), 1>>>> ELSE <<>>)
  IN  IF ~CanReadPtr(m, temp) \/ Wild(m, ws)
      THEN [ub |-> TRUE]
      ELSE [ub |-> FALSE, ret |-> temp, free_list |-> ReadPtr(m, temp),
            mem |-> ApplyWrites(m, ws), stats |-> AllocateStats(st)]

\* The calls counted from outside: a successful Allocate puts one more block
\* on loan, a successful Free one fewer.
Counted(op, err) ==
  LET a == tally.allocs + (IF op = "Allocate" /\ err = "none" THEN 1 ELSE 0)
      f == tally.frees + (IF op = "Free" /\ err = "none" THEN 1 ELSE 0)
  IN  [allocs |-> a, frees |-> f,
       peak |-> IF a - f > tally.peak THEN a - f ELSE tally.peak]

Returned(op, arg, ret, err, vis) ==
  /\ lastOp' = op
  /\ lastArg' = arg
  /\ lastRet' = ret
  /\ lastErr' = err
  /\ visited' = vis
  /\ failed' = (failed \/ err # "none" \/ (op = "Free" /\ arg \notin lent))
  /\ strayed' = (strayed \/ (op = "Free" /\ arg \notin lent
                                /\ \A k \in 1 .. Len(released) : released[k] # arg))
  /\ tally' = Counted(op, err)
  /\ deleted' = deleted

\* The effect of a successful pool allocation that returned r.ret.
AllocateDone(r, pl) ==
  IF r.ub
  THEN /\ Returned("Allocate", NULL, NULL, "UB", <<>>)
       /\ UNCHANGED <<Config_, OAStats_, page_list_, free_list_, mem, lent,
                      released, smashed, clientWrites, modeSet>>
  ELSE /\ Returned("Allocate", NULL, r.ret, "none", <<>>)
       /\ OAStats_' = r.stats
       /\ page_list_' = pl
       /\ free_list_' = r.free_list
       /\ mem' = r.mem
       /\ lent' = lent \cup {r.ret}
       /\ released' = SelectSeq(released, LAMBDA x : x # r.ret)
       /\ UNCHANGED <<Config_, smashed, clientWrites, modeSet>>

\* Addresses the system allocator hands out in pass-through mode.
PassThroughAddrs == {SlotBase(s) : s \in 1 .. MaxAllocations + 1}

\* Allocate, as long as fewer than MaxAllocations allocations have succeeded.
Allocate ==
  /\ Running
  /\ IF Config_.UseCPPMemManager_
     THEN /\ OAStats_.Allocations_ < MaxAllocations
          /\ \E new_mem \in PassThroughAddrs \ lent :
               /\ Returned("Allocate", NULL, new_mem, "none", <<>>)
               /\ OAStats_' = AllocateStats(OAStats_)
               /\ lent' = lent \cup {new_mem}
          /\ UNCHANGED <<Config_, page_list_, free_list_, mem, released,
                         smashed, clientWrites, modeSet>>
     ELSE IF OAStats_.FreeObjects_ = 0
     THEN IF PageLimitReached
          THEN /\ Returned("Allocate", NULL, NULL, "E_NO_PAGES", <<>>)
               /\ UNCHANGED <<Config_, OAStats_, page_list_, free_list_, mem,
                              lent, released, smashed, clientWrites, modeSet>>
          ELSE /\ OAStats_.Allocations_ < MaxAllocations
               /\ \E s \in Slots, garbage \in GarbageBytes :
                    /\ SlotBase(s) \notin DOMAIN mem
                    /\ LET p == AllocatePage(Config_, OAStats_, page_list_, mem,
                                             SlotBase(s), garbage)
                       IN  AllocateDone(IF p.wild THEN [ub |-> TRUE]
                                        ELSE PopFreeList(p.stats, p.free_list, p.mem),
                                        p.page_list)
     ELSE /\ OAStats_.Allocations_ < MaxAllocations
          /\ AllocateDone(PopFreeList(OAStats_, free_list_, mem), page_list_)

(***************************************************************************)
(* Walks of the free list and of the page chain.                           *)
(***************************************************************************)
\* No chain of distinct nodes is longer than the mapped memory.
WalkFuel(m) == Cardinality(DOMAIN m) + 1

\* Lines 604-614: is `target` a node of the list starting at cur?
\* "yes", "no", "UB" (a link read outside every page) or "HANG" (a cycle).
RECURSIVE OnFreeList(_, _, _, _)
OnFreeList(m, cur, target, fuel) ==
  IF cur = NULL THEN "no"
  ELSE IF cur = target THEN "yes"
  ELSE IF ~CanReadPtr(m, cur) THEN "UB"
  ELSE IF fuel = 0 THEN "HANG"
  ELSE OnFreeList(m, ReadPtr(m, cur), target, fuel - 1)

\* Lines 305-314: the nodes a complete walk of the list visits.
RECURSIVE ListNodes(_, _, _, _)
ListNodes(m, cur, fuel, acc) ==
  IF cur = NULL THEN [end |-> "ok", nodes |-> acc]
  ELSE IF ~CanReadPtr(m, cur) THEN [end |-> "UB", nodes |-> acc]
  ELSE IF fuel = 0 THEN [end |-> "HANG", nodes |-> acc]
  ELSE ListNodes(m, ReadPtr(m, cur), fuel - 1, Append(acc, cur))

(***************************************************************************)
(* ValidateObject (lines 587-688).  Returns "ok" or what stops the call.   *)
(***************************************************************************)
\* Line 596: the address the header check reads.
HeaderCheckAddr(Object) == Object - Config_.PadBytes_

\* Lines 592-615.
MultipleFreeCheck(Object, wild) ==
  IF Config_.HeaderBlocks_ # 0
  THEN IF ReadByte(mem, HeaderCheckAddr(Object), wild) = 0
       THEN "E_MULTIPLE_FREE" ELSE "ok"
  ELSE LET w == OnFreeList(mem, free_list_, Object, WalkFuel(mem))
       IN  IF w = "yes" THEN "E_MULTIPLE_FREE"
           ELSE IF w = "no" THEN "ok" ELSE w

\* Line 635.
InsidePage(Object, page) ==
  Object > page /\ Object < page + OAStats_.PageSize_

\* Lines 629-642: the page that holds Object; -1 for E_BAD_ADDRESS, -2 when
\* the walk reads a link outside every page, NULL when it runs off the chain.
RECURSIVE FindPage(_, _, _)
FindPage(Object, temp_walk, page) ==
  IF temp_walk = NULL THEN NULL
  ELSE IF InsidePage(Object, temp_walk) THEN temp_walk
  ELSE IF page = OAStats_.PagesInUse_ THEN -1
  ELSE IF ~CanReadPtr(mem, temp_walk) THEN -2
  ELSE FindPage(Object, ReadPtr(mem, temp_walk), UAdd(page, 1))

\* Lines 644-656.
BadBoundary(Object, temp_walk) ==
  LET block    == temp_walk + WordSize + chunk_size_(Config_) - Config_.PadBytes_
      distance == USub(Object, block)
  IN  URem(distance, OAStats_.ObjectSize_ + chunk_size_(Config_)) # 0

\* Lines 658-686 and ValidateBlock (lines 879-916): some guard byte around
\* the payload at `block` differs from PAD_PATTERN.
PadCorrupted(m, block, wild) ==
  \/ \E i \in 1 .. Config_.PadBytes_ :
        ReadByte(m, block - i, wild) # PAD_PATTERN
  \/ \E i \in 1 .. Config_.PadBytes_ :
        ReadByte(m, block + OAStats_.ObjectSize_ + i - 1, wild) # PAD_PATTERN

ValidateObject(Object, wild) ==
  LET mf == MultipleFreeCheck(Object, wild)
      pg == FindPage(Object, page_list_, 1)
  IN  IF mf # "ok" THEN mf
      ELSE IF page_list_ = NULL THEN "E_BAD_ADDRESS"
      ELSE IF pg = -1 THEN "E_BAD_ADDRESS"
      ELSE IF pg = -2 THEN "UB"
      ELSE IF BadBoundary(Object, pg) THEN "E_BAD_BOUNDARY"
      ELSE IF PadCorrupted(mem, Object, wild) THEN "E_CORRUPTED_BLOCK"
      ELSE "ok"

(***************************************************************************)
(* Free (lines 178-240).                                                   *)
(***************************************************************************)
\* Lines 236-239 (and 186-188).
\* Variant: the release does not count the block as free again.
FreeStats_NoFreeCount(st) ==
  [st EXCEPT !.Deallocations_ = UAdd(@, 1),
             !.ObjectsInUse_ = USub(@, 1)]
FreeStats(st) ==
  [st EXCEPT !.FreeObjects_ = UAdd(@, 1),
             !.Deallocations_ = UAdd(@, 1),
             !.ObjectsInUse_ = USub(@, 1)]

\* Lines 201-234: what a release that passed validation writes.
FreeWrites(Object) ==
  (IF Config_.DebugOn_
   THEN FillU(Object + WordSize, USub(OAStats_.ObjectSize_, WordSize), FREED_PATTERN)
   ELSE <<>>)
  \o (IF Config_.HeaderBlocks_ # 0
      THEN <<<<HeaderFlagAddr(Config_, Object), 0>>>> ELSE <<>>)
  \o PutPtr(Object, IF free_list_ = NULL THEN NULL ELSE free_list_)

\* Does the call validate first (lines 196-199)?
ValidatesFirst == Config_.DebugOn_

\* Variant: the payload is stamped as freed before it is validated.
WritesBeforeValidate_Stamp(Object) ==
  IF Object \in DOMAIN mem THEN <<<<Object, FREED_PATTERN>>>> ELSE <<>>
\* Lines 193-199: what the call has written when ValidateObject throws.
WritesBeforeValidate(Object) == <<>>

Unchanged == UNCHANGED <<Config_, OAStats_, page_list_, free_list_, mem, lent,
                         released, smashed, clientWrites, modeSet>>

FreePool(Object, wild) ==
  LET v == IF ValidatesFirst THEN ValidateObject(Object, wild) ELSE "ok"
  IN  IF v # "ok"
      THEN /\ Returned("Free", Object, NULL, v, <<>>)
           /\ mem' = ApplyWrites(mem, WritesBeforeValidate(Object))
           /\ UNCHANGED <<Config_, OAStats_, page_list_, free_list_, lent,
                          released, smashed, clientWrites, modeSet>>
      ELSE IF Wild(mem, FreeWrites(Object))
      THEN /\ Returned("Free", Object, NULL, "UB", <<>>)
           /\ Unchanged
      ELSE /\ Returned("Free", Object, NULL, "none", <<>>)
           /\ mem' = ApplyWrites(mem, FreeWrites(Object))
           /\ free_list_' = Object
           /\ OAStats_' = FreeStats(OAStats_)
           /\ lent' = lent \ {Object}
           /\ released' = IF Object \in lent THEN <<Object>> \o released
                          ELSE released
           /\ UNCHANGED <<Config_, page_list_, smashed, clientWrites, modeSet>>

\* Payload addresses of the page at `page`, by the layout.
BlocksOf(page) ==
  {page + FirstBlockOffset(Config_) + i * block_size_(Config_, OAStats_) :
     i \in 0 .. Config_.ObjectsPerPage_ - 1}
AllBlocks == UNION {BlocksOf(page) : page \in LivePages}

\* An address in no page.
Elsewhere == SlotBase(1) - 1

\* Is Object a byte of an owned page?
InSomePage(Object) ==
  \E page \in LivePages : Object \in PageRange(page, OAStats_.PageSize_)

\* The pointers the client passes to Free.  Without validation a pointer
\* that is not on loan is outside the contract; with validation any
\* pointer may be passed: blocks on loan or free, addresses one past a
\* payload start, addresses in front of the first payload, the page
\* address and an address in no page.
FreeArgs ==
  IF Config_.UseCPPMemManager_ \/ ~Config_.DebugOn_ THEN lent
  ELSE lent \cup AllBlocks \cup {b + 1 : b \in lent}
         \cup LivePages
         \cup {page + FirstBlockOffset(Config_) - k :
                  page \in LivePages, k \in {1, WordSize}}
         \cup {Elsewhere}

\* The addresses ValidateObject may read bytes from (lines 596, 669, 682).
ValidateReads(Object) ==
  {HeaderCheckAddr(Object)}
    \cup {Object - i : i \in 1 .. Config_.PadBytes_}
    \cup {Object + OAStats_.ObjectSize_ + i - 1 : i \in 1 .. Config_.PadBytes_}

\* The bytes such a read may find outside every page.
WildBytes(Object) ==
  IF ValidatesFirst /\ ~(ValidateReads(Object) \subseteq DOMAIN mem)
  THEN GarbageBytes ELSE {0}

\* Free, as long as fewer than MaxAllocations releases have succeeded.
Free ==
  /\ Running
  /\ OAStats_.Deallocations_ < MaxAllocations
  /\ \E Object \in FreeArgs :
       IF Config_.UseCPPMemManager_
       THEN /\ Returned("Free", Object, NULL, "none", <<>>)
            /\ OAStats_' = FreeStats(OAStats_)
            /\ lent' = lent \ {Object}
            /\ UNCHANGED <<Config_, page_list_, free_list_, mem, released,
                           smashed, clientWrites, modeSet>>
       ELSE \E wild \in WildBytes(Object) : FreePool(Object, wild)

(***************************************************************************)
(* DumpMemoryInUse (lines 255-330).                                        *)
(***************************************************************************)
\* The address of block i (0-based) as the loops of lines 272-278 and
\* 294-300 reach it.
DumpBlock(page, i) ==
  page + (WordSize + chunk_size_(Config_) - Config_.PadBytes_)
       + i * block_size_(Config_, OAStats_)

\* Line 280: the header byte the dump reads for the block at temp_block.
DumpHeaderAddr(temp_block) == temp_block - Config_.PadBytes_ - 1

\* Line 283 and line 319: the address handed to the visitor.
DumpVisitAddr(temp_block) ==
  IF Config_.HeaderBlocks_ # 0 THEN temp_block + Config_.PadBytes_ ELSE temp_block

\* Is the block at temp_block reported (line 280, lines 305-315)?
DumpInUse(temp_block, freeNodes) ==
  IF Config_.HeaderBlocks_ # 0
  THEN mem[DumpHeaderAddr(temp_block)] = 1
  ELSE \A k \in 1 .. Len(freeNodes) : freeNodes[k] # temp_block

\* The visits of one page, in block order.
RECURSIVE DumpPage(_, _, _)
DumpPage(page, i, freeNodes) ==
  IF ~ULess(i, Config_.ObjectsPerPage_) THEN <<>>
  ELSE (IF DumpInUse(DumpBlock(page, i), freeNodes)
        THEN <<DumpVisitAddr(DumpBlock(page, i))>> ELSE <<>>)
       \o DumpPage(page, i + 1, freeNodes)

\* The bytes the dump reads in the page at `page`.
DumpReads(page) ==
  PageRange(page, WordSize)
    \cup (IF Config_.HeaderBlocks_ # 0
          THEN {DumpHeaderAddr(DumpBlock(page, i)) : i \in 0 .. Config_.ObjectsPerPage_ - 1}
          ELSE {})

RECURSIVE DumpPages(_, _, _, _)
DumpPages(temp_page_list, fuel, freeNodes, acc) ==
  IF temp_page_list = NULL THEN [end |-> "none", visited |-> acc]
  ELSE IF ~(DumpReads(temp_page_list) \subseteq DOMAIN mem)
  THEN [end |-> "UB", visited |-> acc]
  ELSE IF fuel = 0 THEN [end |-> "HANG", visited |-> acc]
  ELSE DumpPages(ReadPtr(mem, temp_page_list), fuel - 1, freeNodes,
                 acc \o DumpPage(temp_page_list, 0, freeNodes))

DumpResult ==
  LET walk == IF Config_.HeaderBlocks_ # 0 \/ page_list_ = NULL
              THEN [end |-> "ok", nodes |-> <<>>]
              ELSE ListNodes(mem, free_list_, WalkFuel(mem), <<>>)
  IN  IF walk.end # "ok" THEN [end |-> walk.end, visited |-> <<>>]
      ELSE DumpPages(page_list_, WalkFuel(mem), walk.nodes, <<>>)

DumpMemoryInUse ==
  /\ Running
  /\ lastOp # "DumpMemoryInUse"
  /\ LET r == DumpResult
     IN  Returned("DumpMemoryInUse", NULL,
                  IF r.end = "none" THEN Len(r.visited) ELSE 0,
                  r.end,
                  IF r.end = "none" THEN r.visited ELSE <<>>)
  /\ Unchanged

(***************************************************************************)
(* ValidatePages (lines 344-379) with ValidateBlock (lines 879-916).       *)
(***************************************************************************)
\* Block i (0-based) of the page, as lines 356 and 366 reach it.
ScanBlock(page, i) ==
  page + (Config_.LeftAlignSize_ + Config_.HeaderBlocks_ + Config_.PadBytes_ + WordSize)
       + i * block_size_(Config_, OAStats_)

\* The guard bytes ValidateBlock reads around `block`.
GuardAddrs(block) ==
  {block - i : i \in 1 .. Config_.PadBytes_}
    \cup {block + OAStats_.ObjectSize_ + i - 1 : i \in 1 .. Config_.PadBytes_}

ValidateBlock(block) == ~PadCorrupted(mem, block, 0)

RECURSIVE ScanPage(_, _)
ScanPage(page, i) ==
  IF ~ULess(i, Config_.ObjectsPerPage_) THEN <<>>
  ELSE (IF ~ValidateBlock(ScanBlock(page, i)) THEN <<ScanBlock(page, i)>> ELSE <<>>)
       \o ScanPage(page, i + 1)

ScanReads(page) ==
  PageRange(page, WordSize)
    \cup UNION {GuardAddrs(ScanBlock(page, i)) : i \in 0 .. Config_.ObjectsPerPage_ - 1}

RECURSIVE ScanPages(_, _, _)
ScanPages(temp_page_list, fuel, acc) ==
  IF temp_page_list = NULL THEN [end |-> "none", visited |-> acc]
  ELSE IF ~(ScanReads(temp_page_list) \subseteq DOMAIN mem)
  THEN [end |-> "UB", visited |-> acc]
  ELSE IF fuel = 0 THEN [end |-> "HANG", visited |-> acc]
  ELSE ScanPages(ReadPtr(mem, temp_page_list), fuel - 1,
                 acc \o ScanPage(temp_page_list, 0))

ValidatePages ==
  /\ Running
  /\ lastOp # "ValidatePages"
  /\ LET r == ScanPages(page_list_, WalkFuel(mem), <<>>)
     IN  Returned("ValidatePages", NULL,
                  IF r.end = "none" THEN Len(r.visited) ELSE 0,
                  r.end,
                  IF r.end = "none" THEN r.visited ELSE <<>>)
  /\ Unchanged

(***************************************************************************)
(* SetDebugState (lines 419-422).                                          *)
(***************************************************************************)
SetDebugState ==
  /\ Running
  /\ ~modeSet
  /\ clientWrites = 0
  /\ \E State \in BOOLEAN \ {Config_.DebugOn_} :
       /\ Config_' = [Config_ EXCEPT !.DebugOn_ = State]
       /\ Returned("SetDebugState", IF State THEN 1 ELSE 0, NULL, "none", <<>>)
  /\ modeSet' = TRUE
  /\ UNCHANGED <<OAStats_, page_list_, free_list_, mem, lent, released,
                 smashed, clientWrites>>

(***************************************************************************)
(* The client, writing through a pointer it holds.                         *)
(***************************************************************************)
\* The client overwrites every byte of a payload on loan.
WritePayload ==
  /\ Running
  /\ ~Config_.UseCPPMemManager_
  /\ ~modeSet
  /\ clientWrites < MaxClientWrites
  /\ \E p \in lent, v \in ClientBytes :
       LET ws == Fill(p, OAStats_.ObjectSize_, v)
       IN  /\ ~Wild(mem, ws)
           /\ mem' = ApplyWrites(mem, ws)
           /\ Returned("WritePayload", p, NULL, "none", <<>>)
  /\ clientWrites' = clientWrites + 1
  /\ UNCHANGED <<Config_, OAStats_, page_list_, free_list_, lent, released,
                 smashed, modeSet>>

\* The client overruns a payload on loan: one guard byte next to it gets a
\* value other than the guard pattern.
CorruptGuard ==
  /\ Running
  /\ ~Config_.UseCPPMemManager_
  /\ ~modeSet
  /\ clientWrites < MaxClientWrites
  /\ \E p \in lent \cap AllBlocks, v \in ClientBytes \ {PAD_PATTERN} :
       \E g \in GuardAddrs(p) :
          /\ g \in DOMAIN mem
          /\ mem' = [mem EXCEPT ![g] = v]
          /\ smashed' = smashed \cup {p}
          /\ Returned("CorruptGuard", g, NULL, "none", <<>>)
  /\ clientWrites' = clientWrites + 1
  /\ UNCHANGED <<Config_, OAStats_, page_list_, free_list_, lent, released,
                 modeSet>>

Next ==
  \/ Allocate
  \/ Free
  \/ DumpMemoryInUse
  \/ ValidatePages
  \/ SetDebugState
  \/ WritePayload
  \/ CorruptGuard

Spec == Init /\ [][Next]_vars

(***************************************************************************)
(* Teardown: the destructor (lines 87-91) and DeAllocatePages (565-574).   *)
(***************************************************************************)
\* Lines 568-573 from the page `pl` on, in memory m, with `acc` the pages
\* deleted so far.  delete[] of an address that is not a live page is
\* undefined behaviour.
RECURSIVE DeletePages(_, _, _)
DeletePages(pl, m, acc) ==
  IF pl = NULL THEN [end |-> "none", mem |-> m, pages |-> acc]
  ELSE IF ~(\E t \in Slots : SlotBase(t) = pl) \/ pl \notin DOMAIN m
  THEN [end |-> "UB", mem |-> m, pages |-> acc]
  ELSE LET temp == ReadPtr(m, pl)
           rest == DOMAIN m \ PageRange(pl, SlotSize)
       IN  DeletePages(temp, [a \in rest |-> m[a]], Append(acc, pl))

\* The destructor runs; DeAllocatePages may then be run once more, on the
\* empty chain.
DeAllocatePages ==
  /\ lastErr \notin {"UB", "HANG"}
  /\ ~Config_.UseCPPMemManager_
  /\ lastOp = "DeAllocatePages" => lastRet > 0
  /\ LET r == DeletePages(page_list_, mem, <<>>)
     IN  IF r.end # "none"
         THEN /\ Returned("DeAllocatePages", NULL, 0, r.end, <<>>)
              /\ Unchanged
         ELSE /\ lastOp' = "DeAllocatePages"
              /\ lastArg' = NULL
              /\ lastRet' = Len(r.pages)
              /\ lastErr' = "none"
              /\ visited' = <<>>
              /\ page_list_' = NULL
              /\ mem' = r.mem
              /\ deleted' = deleted \o r.pages
              /\ UNCHANGED <<Config_, OAStats_, free_list_, lent, released,
                             smashed, clientWrites, modeSet, failed, strayed,
                             tally>>

(***************************************************************************)
(* Pool mode over its whole life, with and without a page limit.           *)
(***************************************************************************)
InitLifetime ==
  /\ \E config \in ConfigsOf({FALSE}, 0 .. MaxMaxPages), ObjectSize \in ObjectSizes :
       \E unset \in UnsetAlign(config), garbage \in GarbageBytes :
          Constructed(config, ObjectSize, unset, SlotBase(FirstSlot), garbage)
  /\ InitHistory

NextLifetime ==
  \/ Allocate
  \/ Free
  \/ DeAllocatePages

SpecLifetime == InitLifetime /\ [][NextLifetime]_vars

(***************************************************************************)
(* The system allocator runs out of memory.                                *)
(***************************************************************************)
\* Lines 489-497 when new (std::nothrow) returns null: PageSize_ and
\* PagesInUse_ were already written when E_NO_MEMORY is thrown.
AllocatePageNoMemory(cfg, st) ==
  [st EXCEPT !.PageSize_ = PageSizeOf(cfg, st), !.PagesInUse_ = UAdd(@, 1)]

\* Allocate (lines 121-130) when it needs a page and the system has none:
\* the exception of line 497 leaves Allocate at line 130.
AllocateNoMemory ==
  /\ Running
  /\ ~Config_.UseCPPMemManager_
  /\ OAStats_.FreeObjects_ = 0
  /\ ~PageLimitReached
  /\ Returned("Allocate", NULL, NULL, "E_NO_MEMORY", <<>>)
  /\ OAStats_' = AllocatePageNoMemory(Config_, OAStats_)
  /\ UNCHANGED <<Config_, page_list_, free_list_, mem, lent, released,
                 smashed, clientWrites, modeSet>>

NextNoMemory ==
  \/ Allocate
  \/ Free
  \/ AllocateNoMemory

SpecNoMemory == Init /\ [][NextNoMemory]_vars

(***************************************************************************)
(* Objects smaller than a pointer.                                         *)
(***************************************************************************)
SmallObjectSizes == {1, WordSize - 1}

InitSmall ==
  /\ \E config \in ConfigsOf({FALSE}, 1 .. MaxMaxPages), ObjectSize \in SmallObjectSizes :
       \E unset \in UnsetAlign(config), garbage \in GarbageBytes :
          Constructed(config, ObjectSize, unset, SlotBase(FirstSlot), garbage)
  /\ InitHistory

NextSmall ==
  \/ Allocate
  \/ Free

SpecSmall == InitSmall /\ [][NextSmall]_vars

(***************************************************************************)
(* Pass-through mode: every request goes to the system allocator.          *)
(***************************************************************************)
InitPassThrough ==
  /\ \E config \in ConfigsOf({TRUE}, 0 .. MaxMaxPages), ObjectSize \in ObjectSizes :
       \E unset \in UnsetAlign(config), garbage \in GarbageBytes :
          Constructed(config, ObjectSize, unset, SlotBase(FirstSlot), garbage)
  /\ InitHistory

NextPassThrough ==
  \/ Allocate
  \/ Free
  \/ DumpMemoryInUse
  \/ ValidatePages

SpecPassThrough == InitPassThrough /\ [][NextPassThrough]_vars

(***************************************************************************)
(* Properties.                                                             *)
(***************************************************************************)
PoolMode == ~Config_.UseCPPMemManager_
Capacity == Config_.MaxPages_ * Config_.ObjectsPerPage_
ReleaseErrors ==
  {"E_MULTIPLE_FREE", "E_BAD_ADDRESS", "E_BAD_BOUNDARY", "E_CORRUPTED_BLOCK"}
Elements(seq) == {seq[k] : k \in 1 .. Len(seq)}

\* C1 (capacity): with maxPages = P >= 1 and objectsPerPage = K, as long as
\* no release has succeeded, every allocate call succeeds while fewer than
\* P*K blocks have been handed out, and the call made when P*K blocks are
\* out fails with E_NO_PAGES.
C1_Capacity ==
  (PoolMode /\ Config_.MaxPages_ >= 1 /\ lastOp = "Allocate"
     /\ OAStats_.Deallocations_ = 0)
  => \/ lastErr = "none" /\ OAStats_.Allocations_ <= Capacity
     \/ lastErr = "E_NO_PAGES" /\ OAStats_.Allocations_ = Capacity

C1_Witness ==
  /\ PoolMode /\ lastOp = "Allocate" /\ lastErr = "E_NO_PAGES"
  /\ OAStats_.Deallocations_ = 0
  /\ Config_.MaxPages_ = 2
  /\ OAStats_.Allocations_ = Capacity

\* C2 (conservation): in pool mode, after N successful allocations and M
\* successful releases with N >= M, the in-use count is N - M and the free
\* count is (pages created * objectsPerPage) - (N - M).
C2_Conservation ==
  (PoolMode /\ OAStats_.Deallocations_ <= OAStats_.Allocations_)
  => LET out == OAStats_.Allocations_ - OAStats_.Deallocations_
     IN  /\ OAStats_.ObjectsInUse_ = out
         /\ OAStats_.FreeObjects_ =
              Cardinality(LivePages) * Config_.ObjectsPerPage_ - out
         /\ OAStats_.FreeObjects_ + OAStats_.ObjectsInUse_ =
              Cardinality(LivePages) * Config_.ObjectsPerPage_

C2_Witness ==
  /\ PoolMode /\ ~failed
  /\ OAStats_.Allocations_ = 3 /\ OAStats_.Deallocations_ = 1
  /\ Cardinality(LivePages) = 2
  /\ OAStats_.ObjectsInUse_ = 2 /\ OAStats_.FreeObjects_ = 0

\* C3 (double-free detection): with debug mode on, in every configuration,
\* releasing a pointer that allocate returned and that was released
\* successfully and not handed out again since fails with E_MULTIPLE_FREE.
C3_DoubleFreeDetected ==
  [][(lastOp' = "Free" /\ PoolMode /\ Config_.DebugOn_
        /\ lastArg' \in Elements(released))
     => lastErr' = "E_MULTIPLE_FREE"]_vars

\* C4 (release is atomic on error): a release that reports E_MULTIPLE_FREE,
\* E_BAD_ADDRESS, E_BAD_BOUNDARY or E_CORRUPTED_BLOCK leaves the free list,
\* the page chain, every byte of every page, the statistics and the
\* configuration as they were.
C4_ReleaseAtomic ==
  [][(lastOp' = "Free" /\ lastErr' \in ReleaseErrors)
     => UNCHANGED <<Config_, OAStats_, page_list_, free_list_, mem>>]_vars

C4_Witness ==
  /\ lastOp = "Free" /\ lastErr = "E_CORRUPTED_BLOCK"
  /\ lastArg \in smashed /\ lastArg \in lent

\* C5 (LIFO reuse): in pool mode allocate returns the most recently released
\* block that has not been re-allocated since; in particular allocate,
\* release, allocate returns the same address twice.
C5_LifoReuse ==
  [][(lastOp' = "Allocate" /\ PoolMode /\ released # <<>>)
     => (lastErr' = "none" /\ lastRet' = Head(released))]_vars

\* C6 (corruption scan is exact): constructed with debug mode on and
\* padBytes >= 1, with allocate, release and client writes only, the scan
\* visits each block whose guard bytes the client overwrote, once, visits
\* no other block, and returns their number.
C6_ScanExact ==
  (PoolMode /\ lastOp = "ValidatePages" /\ Config_.DebugOn_ /\ ~modeSet
     /\ Config_.PadBytes_ >= 1)
  => /\ lastErr = "none"
     /\ Elements(visited) = smashed
     /\ Len(visited) = Cardinality(smashed)
     /\ lastRet = Cardinality(smashed)

\* C7 (corrupted block is rejected on release): with debug mode on and
\* padBytes >= 1, the release of a block on loan that has a guard byte
\* overwritten fails with E_CORRUPTED_BLOCK and the block stays on loan.
C7_CorruptedRejected ==
  [][(lastOp' = "Free" /\ PoolMode /\ Config_.DebugOn_ /\ Config_.PadBytes_ >= 1
        /\ lastArg' \in lent /\ lastArg' \in smashed)
     => (lastErr' = "E_CORRUPTED_BLOCK" /\ lastArg' \in lent')]_vars

\* C8 (boundary detection): with debug mode on, the release of an address
\* inside an owned page that is not the payload start of one of its blocks
\* never succeeds: it reports one of the validator's errors.  Addresses
\* below the first payload of the page are among them.
C8_BoundaryRejected ==
  (PoolMode /\ lastOp = "Free" /\ Config_.DebugOn_
     /\ InSomePage(lastArg) /\ lastArg \notin AllBlocks)
  => lastErr \in ReleaseErrors

\* C9 (residency detection): with debug mode on and no usage headers, the
\* release of an address in no owned page fails with E_BAD_ADDRESS, and
\* the release of an address in an owned page does not.
C9_Residency ==
  (PoolMode /\ lastOp = "Free" /\ Config_.DebugOn_ /\ Config_.HeaderBlocks_ = 0)
  => /\ ~InSomePage(lastArg) => lastErr = "E_BAD_ADDRESS"
     /\ InSomePage(lastArg) => lastErr # "E_BAD_ADDRESS"

\* C10 (dump accuracy): in pool mode, after allocate and release calls none
\* of which reported an error, the dump visits exactly the payload addresses
\* on loan, each once, and returns their number, which is the in-use
\* statistic.  Stated for allocators constructed with debug mode on and no
\* alignment, whose pages are stamped as laid out, and for releases of
\* addresses on loan.
C10_DumpAccurate ==
  (PoolMode /\ lastOp = "DumpMemoryInUse" /\ ~failed
     /\ Config_.DebugOn_ /\ ~modeSet /\ Config_.Alignment_ = 0)
  => /\ Elements(visited) = lent
     /\ Len(visited) = Cardinality(lent)
     /\ lastRet = Cardinality(lent)
     /\ lastRet = OAStats_.ObjectsInUse_

\* C11 (pass-through isolation): with pass-through enabled, after
\* construction and after every allocate and release, no page exists (the
\* page chain is empty and the page count is 0) and the free list is empty.
C11_PassThroughIsolation ==
  Config_.UseCPPMemManager_
  => /\ page_list_ = NULL
     /\ OAStats_.PagesInUse_ = 0
     /\ free_list_ = NULL
     /\ LivePages = {}

C11_Witness ==
  /\ Config_.UseCPPMemManager_
  /\ lastOp = "Free" /\ lastErr = "none"
  /\ tally.allocs = 2 /\ tally.frees = 1
  /\ Cardinality(lent) = 1
  /\ page_list_ = NULL

\* C12 (pass-through statistics): with pass-through enabled, after N
\* allocate calls and M releases of allocated pointers (N >= M), the in-use
\* count is N - M, the lifetime allocation count is N, the lifetime
\* deallocation count is M, and the high-water mark is the largest in-use
\* count reached.
C12_PassThroughStats ==
  (Config_.UseCPPMemManager_ /\ tally.frees <= tally.allocs)
  => /\ OAStats_.ObjectsInUse_ = tally.allocs - tally.frees
     /\ OAStats_.ObjectsInUse_ = Cardinality(lent)
     /\ OAStats_.Allocations_ = tally.allocs
     /\ OAStats_.Deallocations_ = tally.frees
     /\ OAStats_.MostObjects_ = tally.peak

C12_Witness ==
  /\ Config_.UseCPPMemManager_
  /\ lastOp = "Allocate" /\ lastErr = "none"
  /\ tally.allocs = 3 /\ tally.frees = 1
  /\ OAStats_.ObjectsInUse_ = 2 /\ OAStats_.MostObjects_ = 2

\* The guard and header bytes the layout gives the block with payload b.
GuardBytesOf(b) ==
  {b - j : j \in 1 .. Config_.PadBytes_}
    \cup {b + OAStats_.ObjectSize_ + j - 1 : j \in 1 .. Config_.PadBytes_}
HeaderBytesOf(b) ==
  {b - Config_.PadBytes_ - h : h \in 1 .. Config_.HeaderBlocks_}

\* In memory m every block of the page has its guard bytes stamped and its
\* header bytes zero; the header of the block `out`, handed to the client
\* in the same call, is exempt.
Stamped(m, page, out) ==
  \A b \in BlocksOf(page) :
     /\ \A g \in GuardBytesOf(b) : g \in DOMAIN m /\ m[g] = PAD_PATTERN
     /\ b # out =>
          \A h \in HeaderBytesOf(b) : h \in DOMAIN m /\ m[h] = 0

\* C13 (page stamping is independent of debug mode): right after a page is
\* created, by the constructor or by allocate, with debug mode on or off,
\* every block of the page has its guard bytes on both sides equal to the
\* guard pattern and its header bytes equal to 0, at the offsets of the
\* layout.
C13_PageStamped ==
  /\ (PoolMode /\ lastOp = "ObjectAllocator") => Stamped(mem, page_list_, NULL)
  /\ [][(PoolMode /\ LivePages' # LivePages /\ lastErr' = "none")
          => Stamped(mem', page_list_', lastRet')]_vars

\* C14 (validator check order): a debug-mode release reports the first
\* failing check in the order double free, residency, boundary, corruption:
\* a free block with a guard byte that does not match yields
\* E_MULTIPLE_FREE, an address in no page that is not a free-list node
\* yields E_BAD_ADDRESS, and an address inside a page that is not a payload
\* start and whose neighbouring bytes do not match the guard pattern yields
\* E_BAD_BOUNDARY, never E_CORRUPTED_BLOCK.  Stated for allocators without
\* usage headers, where the double-free check walks the free list, and for
\* addresses other than the page's own.
C14_CheckOrder ==
  [][(lastOp' = "Free" /\ PoolMode /\ Config_.DebugOn_
        /\ Config_.HeaderBlocks_ = 0 /\ lastArg' \notin LivePages)
     => LET p     == lastArg'
            onList == OnFreeList(mem, free_list_, p, WalkFuel(mem)) = "yes"
            torn  == \E w \in GarbageBytes : PadCorrupted(mem, p, w)
        IN  /\ (p \in AllBlocks \ lent /\ onList /\ torn)
                  => lastErr' = "E_MULTIPLE_FREE"
            /\ (~InSomePage(p) /\ ~onList) => lastErr' = "E_BAD_ADDRESS"
            /\ (InSomePage(p) /\ p \notin AllBlocks /\ ~onList /\ torn)
                  => lastErr' = "E_BAD_BOUNDARY"]_vars

\* C15: with MaxPages_ = 0 no call of Allocate ends with E_NO_PAGES, and every
\* Allocate made while FreeObjects_ is 0 creates a page.
C15_Unbounded ==
  /\ (PoolMode /\ Config_.MaxPages_ = 0) => lastErr # "E_NO_PAGES"
  /\ [][(lastOp' = "Allocate" /\ PoolMode /\ Config_.MaxPages_ = 0
           /\ OAStats_.FreeObjects_ = 0)
          => /\ Cardinality(LivePages') = Cardinality(LivePages) + 1
             /\ OAStats_'.PagesInUse_ = OAStats_.PagesInUse_ + 1
             /\ lastErr' = "none"]_vars

C15_Witness ==
  /\ PoolMode
  /\ Config_.MaxPages_ = 0
  /\ lastOp = "Allocate"
  /\ lastErr = "none"
  /\ OAStats_.PagesInUse_ = 3
  /\ Cardinality(LivePages) = 3

\* C16: in pool mode teardown returns, hands every live page back exactly
\* once and leaves the chain empty; run on an empty chain it hands nothing
\* back; no other operation hands a page back.
C16_Teardown ==
  [][/\ (lastOp' = "DeAllocatePages" /\ PoolMode)
          => /\ lastErr' = "none"
             /\ page_list_' = NULL
             /\ LivePages' = {}
             /\ Len(deleted') = Len(deleted) + Cardinality(LivePages)
             /\ Elements(deleted') = Elements(deleted) \cup LivePages
             /\ (page_list_ = NULL => deleted' = deleted)
     /\ (lastOp' # "DeAllocatePages")
          => (deleted' = deleted /\ LivePages \subseteq LivePages')]_vars

\* The blocks reached from `cur` along the Next links (line 135), in order,
\* up to the null link.
RECURSIVE ChainFrom(_, _, _)
ChainFrom(m, cur, fuel) ==
  IF cur = NULL \/ fuel = 0 \/ ~CanReadPtr(m, cur) THEN <<>>
  ELSE <<cur>> \o ChainFrom(m, ReadPtr(m, cur), fuel - 1)

\* The payload addresses of the page at `page`, highest first.
DescendingBlocks(page) ==
  [k \in 1 .. Config_.ObjectsPerPage_ |->
     page + FirstBlockOffset(Config_)
          + (Config_.ObjectsPerPage_ - k) * block_size_(Config_, OAStats_)]

C18_HighWater ==
  /\ (PoolMode /\ ~failed)
       => /\ OAStats_.MostObjects_ = tally.peak
          /\ OAStats_.ObjectsInUse_ = tally.allocs - tally.frees
  /\ [][PoolMode => OAStats_'.MostObjects_ >= OAStats_.MostObjects_]_vars

C18_Witness ==
  /\ PoolMode
  /\ ~failed
  /\ lastOp = "Allocate"
  /\ tally.allocs = 3
  /\ tally.frees = 2
  /\ OAStats_.ObjectsInUse_ = 1
  /\ OAStats_.MostObjects_ = 2
  /\ tally.peak = 2

\* C19: with validation on at the call, the release of a block on loan
\* succeeds, provided the client wrote only inside payloads.  Stated for
\* Alignment_ = 0 and for runs in which no earlier call failed and every
\* earlier release was of a block on loan.
C19_ValidReleaseAccepted ==
  [][(lastOp' = "Free" /\ PoolMode /\ Config_.DebugOn_ /\ lastArg' \in lent
        /\ smashed = {} /\ Config_.Alignment_ = 0 /\ ~failed)
       => lastErr' = "none"]_vars

\* C20: with validation on since construction, when every release was of an
\* address Allocate had returned and the client wrote nothing, Allocate
\* never returns a block that is on loan.
C20_NoDoubleLoan ==
  [][(lastOp' = "Allocate" /\ lastErr' = "none" /\ PoolMode /\ Config_.DebugOn_
        /\ ~modeSet /\ ~strayed /\ clientWrites = 0 /\ smashed = {})
       => lastRet' \notin lent]_vars

\* The free list as a sequence, and whether the walk ended at a null link.
FreeChain == ChainFrom(mem, free_list_, WalkFuel(mem))
FreeChainEnds ==
  IF FreeChain = <<>> THEN free_list_ = NULL
  ELSE /\ Len(FreeChain) < WalkFuel(mem)
       /\ ReadPtr(mem, FreeChain[Len(FreeChain)]) = NULL

\* C21: in pool mode with validation on since construction, after Allocate
\* and Free calls only, each Free given an address Allocate had returned,
\* the free list ends at a null link, holds no block twice, holds only
\* payload starts of owned pages, holds no block on loan, and its length is
\* FreeObjects_.
C21_FreeListIntegrity ==
  (PoolMode /\ Config_.DebugOn_ /\ ~modeSet /\ clientWrites = 0 /\ smashed = {}
     /\ ~strayed /\ lastErr \notin {"UB", "HANG"})
  => /\ FreeChainEnds
     /\ Cardinality(Elements(FreeChain)) = Len(FreeChain)
     /\ Elements(FreeChain) \subseteq AllBlocks
     /\ Elements(FreeChain) \cap lent = {}
     /\ Len(FreeChain) = OAStats_.FreeObjects_
     /\ (free_list_ = NULL <=> OAStats_.FreeObjects_ = 0)

\* The pages linked from page_list_, in order.
PageChain == ChainFrom(mem, page_list_, WalkFuel(mem))

\* C22: in pool mode, when every release was of an address Allocate had
\* returned, PagesInUse_ is the number of pages linked from page_list_, also
\* after a page could not be had; a call that fails with E_NO_MEMORY leaves
\* PagesInUse_, page_list_, free_list_ and FreeObjects_ as they were.
C22_PageCount ==
  /\ (PoolMode /\ ~strayed /\ lastErr \notin {"UB", "HANG"})
       => OAStats_.PagesInUse_ = Len(PageChain)
  /\ [][(PoolMode /\ ~strayed /\ lastErr' = "E_NO_MEMORY")
          => /\ OAStats_'.PagesInUse_ = OAStats_.PagesInUse_
             /\ page_list_' = page_list_
             /\ free_list_' = free_list_
             /\ OAStats_'.FreeObjects_ = OAStats_.FreeObjects_]_vars

\* The payload bytes of the block at b.
PayloadOf(b) == b .. (b + OAStats_.ObjectSize_ - 1)

\* C23: for every ObjectSize_ > 0, those below the size of a pointer
\* included, the constructor, Allocate and Free write only inside pages, the
\* link of a free block lies inside its payload, and the length
\* ObjectSize_ - sizeof(void*) of the pattern runs does not wrap.
C23_WritesInBounds ==
  (PoolMode /\ ~strayed /\ lastOp \in {"ObjectAllocator", "Allocate", "Free"})
  => /\ lastErr # "UB"
     /\ \A b \in AllBlocks : b .. (b + WordSize - 1) \subseteq PayloadOf(b)
     /\ ~ULess(OAStats_.ObjectSize_, WordSize)

\* C24: FreeObjects_, an unsigned, is never decremented while it is 0: no
\* call leaves in it a value that wrapped around.
C24_FreeCountNoWrap ==
  [][/\ (OAStats_.FreeObjects_ = 0 => OAStats_'.FreeObjects_ # USub(0, 1))
     /\ OAStats_'.FreeObjects_ >= 0]_vars

====
